---- MODULE Spec2Model ----
(***************************************************************************)
(* Model of examples/gromov/plot_semirelaxed_gromov_wasserstein_barycenter  *)
(* .py: a linear script that generates a dataset of stochastic block model *)
(* graphs, shows samples of it (figure 1), calls the semi-relaxed          *)
(* Gromov-Wasserstein barycenter solver once and shows the loss curve      *)
(* (figure 2).                                                             *)
(*                                                                         *)
(* Conventions.  Python containers are 0-based, TLA+ sequences 1-based:    *)
(* At(s, k) reads the Python element s[k].  Graph nodes and matrix indices *)
(* keep the Python numbering 0..n-1.  A 0/1 matrix is the record           *)
(* [shape |-> <<r, c>>, rows |-> [i |-> {j : entry (i, j) is not 0}]].     *)
(* Probabilities are counted in tenths, floats drawn by the random         *)
(* generator in hundredths, exact fractions are pairs <<num, den>>.        *)
(* The random generators (numpy's and the one networkx seeds per graph)    *)
(* are deterministic functions of their seed and position; which function  *)
(* is not known to the model, so it is one of a family indexed by the      *)
(* variable entropy, fixed for a run.                                      *)
(***************************************************************************)
EXTENDS Integers, Sequences, FiniteSets, TLC

\* ------------------------------------------------------------------ bounds
NumStreams == 3
MaxLossLen == 2
MaxN == 3
GenSeeds == 2

\* ------------------------------------------------- constants of the script
SEED_DATA == 42
SEED_BCD == 0
n_samples == 60
clusters == <<1, 2, 3>>
Nc == n_samples \div Len(clusters)
nlabels == Len(clusters)
p_inter == 1
p_intra == 9
low == 30
high == 50
N == 3
init_rows == << <<6, 2, 2>>, <<2, 6, 2>>, <<2, 2, 6>> >>
NoSeed == -1
Unbound == -1
EmptyMatrix == [shape |-> <<0, 0>>, rows |-> <<>>]

\* ------------------------------------------------------ python / numpy
At(s, k) == s[k + 1]

range(n) == 0 .. (n - 1)

Entry(M, a, b) == IF b \in M.rows[a] THEN 1 ELSE 0

np_array(rows) ==
  [shape |-> <<Len(rows), Len(rows[1])>>,
   rows |-> [a \in range(Len(rows)) |->
              {b \in range(Len(rows[1])) : At(At(rows, a), b) # 0}]]

Mix(e, seed, pos) ==
  e * 1103 + seed * 17 + pos * pos * (e + 2) * 37 + pos * 211 * e + (pos \div (e + 1)) * 53

uniform(lo, hi, e, r) == lo * 100 + (Mix(e, r.seed, r.pos) % ((hi - lo) * 100))

int(v100) == v100 \div 100

\* rounds a tie away from zero, where np.round rounds it to the even neighbour
round_half_up(num, den) ==
  LET q == num \div den
      r == num % den
  IN  IF 2 * r < den THEN q ELSE q + 1

round_half_even(num, den) ==
  LET q == num \div den
      r == num % den
  IN  IF 2 * r < den THEN q
      ELSE IF 2 * r > den THEN q + 1
      ELSE IF q % 2 = 0 THEN q ELSE q + 1

ProbMatrix(nc) ==
  IF nc > 1
    THEN [a \in 1..nc |-> [b \in 1..nc |-> IF a = b THEN p_intra ELSE p_inter]]
    ELSE << <<p_intra>> >>

BlockSizes(nn, nc) == [k \in 1..nc |-> round_half_even(nn, nc)]

RECURSIVE np_sum(_)
np_sum(s) == IF Len(s) = 0 THEN 0 ELSE s[1] + np_sum(Tail(s))

\* ------------------------------------------------------------- networkx
RECURSIVE BlockOf(_, _, _)
BlockOf(sz, v, b) ==
  IF b >= Len(sz) \/ v < sz[b] THEN b - 1 ELSE BlockOf(sz, v - sz[b], b + 1)

Coin(e, seed, a, b) == (e * 7 + seed * 3 + a * 5 + b * 11 + a * b) % 10

sbm(sz, Pm, seed, e) ==
  LET n == np_sum(sz)
      blk == [v \in range(n) |-> BlockOf(sz, v, 1)]
  IN  [nodes |-> n,
       edges |-> {ab \in range(n) \X range(n) :
                    /\ ab[1] < ab[2]
                    /\ Coin(e, seed, ab[1], ab[2])
                         < At(At(Pm, blk[ab[1]]), blk[ab[2]])}]

to_numpy_array(G) ==
  [shape |-> <<G.nodes, G.nodes>>,
   rows |-> [a \in range(G.nodes) |->
              {b \in range(G.nodes) : <<a, b>> \in G.edges \/ <<b, a>> \in G.edges}]]

MDS(M) == [v \in range(M.shape[1]) |-> <<v, v * v>>]

\* ----------------------------------------------------------- plot_graph
\* reads the entry below the diagonal, C[j, i], where the code reads C[i, j]
InnerLoopTransposed(px, M, binary, j) ==
  LET Drawn(i0) == IF binary THEN Entry(M, j, i0) > 0 ELSE TRUE
      kept == SelectSeq([k \in 1..j |-> k - 1], Drawn)
  IN  [k \in 1..Len(kept) |->
         [op |-> "plot", a |-> px[kept[k]], b |-> px[j],
          alpha |-> IF binary THEN 2 ELSE 10 * Entry(M, j, kept[k])]]

\* the lines the inner loop (for i in range(j)) draws for one j, in order
InnerLoop(px, M, binary, j) ==
  LET Drawn(i0) == IF binary THEN Entry(M, i0, j) > 0 ELSE TRUE
      kept == SelectSeq([k \in 1..j |-> k - 1], Drawn)
  IN  [k \in 1..Len(kept) |->
         [op |-> "plot", a |-> px[kept[k]], b |-> px[j],
          alpha |-> IF binary THEN 2 ELSE 10 * Entry(M, kept[k], j)]]

\* the lines the outer loop draws for j = lo, ..., hi, in order (the range is
\* halved to keep the recursion shallow)
RECURSIVE OuterLoop(_, _, _, _, _)
OuterLoop(px, M, binary, lo, hi) ==
  IF lo > hi THEN <<>>
  ELSE IF lo = hi THEN InnerLoop(px, M, binary, lo)
  ELSE OuterLoop(px, M, binary, lo, (lo + hi) \div 2)
         \o OuterLoop(px, M, binary, (lo + hi) \div 2 + 1, hi)

plot_graph(px, M, binary) ==
  Append(OuterLoop(px, M, binary, 0, M.shape[1] - 1), [op |-> "scatter", pts |-> px])

\* ------------------------------------------------------------ fractions
RECURSIVE gcd(_, _)
gcd(a, b) == IF b = 0 THEN a ELSE gcd(b, a % b)

FracAdd(p, q) ==
  LET num == p[1] * q[2] + q[1] * p[2]
      den == p[2] * q[2]
      g == gcd(num, den)
  IN  <<num \div g, den \div g>>

\* the sum of s[lo..hi], halving the range to keep the recursion shallow
RECURSIVE FracSumRange(_, _, _)
FracSumRange(s, lo, hi) ==
  IF lo > hi THEN <<0, 1>>
  ELSE IF lo = hi THEN s[lo]
  ELSE FracAdd(FracSumRange(s, lo, (lo + hi) \div 2),
               FracSumRange(s, (lo + hi) \div 2 + 1, hi))

FracSum(s) == FracSumRange(s, 1, Len(s))

\* ------------------------------------------------------------- ot (POT)
unif(n) == [k \in 1..n |-> <<1, n>>]

LossSequences ==
  UNION {{l \in [1..k -> 0..1] : \A t \in 1..(k - 1) : l[t + 1] <= l[t]} :
           k \in 1..MaxLossLen}

\* ---------------------------------------------------------------- state
VARIABLES pc, entropy, rng, seeds, ndraws, iter, n_cluster, i, n_nodes, P,
          sizes, C, dataset, labels, idx_c, c, sel, x, fig1, fig2, ps, lambdas,
          log, events, binary

vars == <<pc, entropy, rng, seeds, ndraws, iter, n_cluster, i, n_nodes, P,
          sizes, C, dataset, labels, idx_c, c, sel, x, fig1, fig2, ps, lambdas,
          log, events, binary>>

genVars == <<n_cluster, i, n_nodes, P, sizes, dataset, labels>>
vizVars == <<idx_c, c, sel, x, fig1>>
bcdVars == <<ps, lambdas, log, fig2>>
rngVars == <<rng, seeds, ndraws>>

Rng0 ==
  /\ rng = [seed |-> NoSeed, pos |-> 0]
  /\ seeds = <<>>
  /\ ndraws = 0
  /\ iter = 0

GenOut0 ==
  /\ P = <<>>
  /\ sizes = <<>>
  /\ dataset = <<>>
  /\ labels = <<>>

Viz0 ==
  /\ idx_c = Unbound
  /\ c = Unbound
  /\ sel = Unbound
  /\ fig1 = <<>>

Bcd0 ==
  /\ fig2 = <<>>
  /\ ps = <<>>
  /\ lambdas = <<>>
  /\ log = [loss |-> <<>>]
  /\ events = <<>>

Init ==
  /\ pc = "seed"
  /\ entropy \in 1..NumStreams
  /\ Rng0
  /\ n_cluster = Unbound
  /\ i = Unbound
  /\ n_nodes = Unbound
  /\ GenOut0
  /\ C = EmptyMatrix
  /\ x = <<>>
  /\ binary = TRUE
  /\ Viz0
  /\ Bcd0

\* line 57 (and the constants of lines 59-68, which Init holds)
Seed ==
  /\ pc = "seed"
  /\ rng' = [seed |-> SEED_DATA, pos |-> 0]
  /\ seeds' = Append(seeds, [seed |-> SEED_DATA, draws |-> ndraws])
  /\ pc' = "gen"
  /\ UNCHANGED <<entropy, ndraws, iter, genVars, C, vizVars, bcdVars, events, binary>>

\* records the label of the multi-cluster graphs only
LoopBodyNoLabel(nc, ii, nn) ==
  \E Pm \in {ProbMatrix(nc)} : \E sz \in {BlockSizes(nn, nc)} :
  \E G \in {sbm(sz, Pm, ii, entropy)} : \E Cm \in {to_numpy_array(G)} :
      /\ n_cluster' = nc
      /\ i' = ii
      /\ n_nodes' = nn
      /\ P' = Pm
      /\ sizes' = sz
      /\ C' = Cm
      /\ dataset' = Append(dataset, Cm)
      /\ labels' = IF nc > 1 THEN Append(labels, nc) ELSE labels

\* lines 73-82: the body of the generation loop, after the draw of line 71
\* (each local is bound once to its value, as the assignment does)
LoopBody(nc, ii, nn) ==
  \E Pm \in {ProbMatrix(nc)} : \E sz \in {BlockSizes(nn, nc)} :
  \E G \in {sbm(sz, Pm, ii, entropy)} : \E Cm \in {to_numpy_array(G)} :
      /\ n_cluster' = nc
      /\ i' = ii
      /\ n_nodes' = nn
      /\ P' = Pm
      /\ sizes' = sz
      /\ C' = Cm
      /\ dataset' = Append(dataset, Cm)
      /\ labels' = Append(labels, nc)

\* leaves the nested loops when the first inner loop ends
GenStepOneCluster ==
  /\ pc = "gen"
  /\ iter < Len(clusters) * Nc
  /\ LoopBody(At(clusters, iter \div Nc), iter % Nc,
              int(uniform(low, high, entropy, rng)))
  /\ rng' = [rng EXCEPT !.pos = @ + 1]
  /\ ndraws' = ndraws + 1
  /\ iter' = iter + 1
  /\ pc' = IF iter + 1 < Nc THEN "gen" ELSE "fig1"
  /\ UNCHANGED <<entropy, seeds, vizVars, bcdVars, events, binary>>

\* lines 69-82: one iteration of the nested loops; iter counts the iterations
\* made, the outer loop is at clusters[iter \div Nc], the inner one at iter % Nc
GenStep ==
  /\ pc = "gen"
  /\ iter < Len(clusters) * Nc
  /\ LoopBody(At(clusters, iter \div Nc), iter % Nc,
              int(uniform(low, high, entropy, rng)))
  /\ rng' = [rng EXCEPT !.pos = @ + 1]
  /\ ndraws' = ndraws + 1
  /\ iter' = iter + 1
  /\ pc' = IF iter + 1 < Len(clusters) * Nc THEN "gen" ELSE "fig1"
  /\ UNCHANGED <<entropy, seeds, vizVars, bcdVars, events, binary>>

\* dataset[k] as Python evaluates it: a negative k counts from the end, and an
\* index outside -len..len-1 raises IndexError
ValidIndex(s, k) == -Len(s) <= k /\ k < Len(s)
GetItem(s, k) == IF k >= 0 THEN At(s, k) ELSE At(s, Len(s) + k)

\* pl.subplot(rows, cols, k) raises ValueError unless 1 <= k <= rows * cols
ValidSubplot(rows, cols, k) == 1 <= k /\ k <= rows * cols

\* indexes with c where the code indexes with c - 1
SampleIndexOffByOne(cc) == cc * Nc

SampleIndex(cc) == (cc - 1) * Nc

\* lines 99-100
OpenFigure1 ==
  /\ pc = "fig1"
  /\ fig1' = <<>>
  /\ pc' = "viz"
  /\ UNCHANGED <<entropy, rngVars, iter, genVars, C, idx_c, c, sel, x, bcdVars,
                 events, binary>>

\* lines 101-112: one iteration of the sample-visualization loop
VizStep ==
  /\ pc = "viz"
  /\ idx_c + 1 < Len(clusters)
  /\ LET k == idx_c + 1
         cc == At(clusters, k)
         index == SampleIndex(cc)
     IN  /\ idx_c' = k
         /\ c' = cc
         /\ sel' = index
         /\ IF ValidIndex(dataset, index)
               /\ ValidSubplot(2, nlabels, cc)
               /\ ValidSubplot(2, nlabels, nlabels + cc)
              THEN LET Cm == GetItem(dataset, index)
                       xx == MDS(Cm)
                   IN  /\ C' = Cm
                       /\ x' = xx
                       /\ fig1' = fig1
                            \o << [op |-> "subplot", pos |-> cc],
                                  [op |-> "title", label |-> cc] >>
                            \o plot_graph(xx, Cm, TRUE)
                            \o << [op |-> "axis", arg |-> "off"],
                                  [op |-> "subplot", pos |-> nlabels + cc],
                                  [op |-> "title", label |-> cc],
                                  [op |-> "imshow", data |-> Cm],
                                  [op |-> "axis", arg |-> "off"] >>
                       /\ pc' = IF k + 1 < Len(clusters) THEN "viz" ELSE "show1"
              ELSE /\ pc' = "error"
                   /\ UNCHANGED <<C, x, fig1>>
  /\ UNCHANGED <<entropy, rngVars, iter, genVars, bcdVars, events, binary>>

\* lines 113-114
Show1 ==
  /\ pc = "show1"
  /\ events' = Append(events, [ev |-> "show", arg |-> 1])
  /\ pc' = "reseed"
  /\ UNCHANGED <<entropy, rngVars, iter, genVars, C, vizVars, ps, lambdas, log,
                 fig2, binary>>

\* goes on to the weights without seeding the generator again
ReseedSkipped ==
  /\ pc = "reseed"
  /\ pc' = "weights"
  /\ UNCHANGED <<entropy, rngVars, iter, genVars, C, vizVars, bcdVars, events, binary>>

\* line 122
Reseed ==
  /\ pc = "reseed"
  /\ rng' = [seed |-> SEED_BCD, pos |-> 0]
  /\ seeds' = Append(seeds, [seed |-> SEED_BCD, draws |-> ndraws])
  /\ pc' = "weights"
  /\ UNCHANGED <<entropy, ndraws, iter, genVars, C, vizVars, bcdVars, events, binary>>

\* sizes every weight vector after the first graph
NodeWeightsFirstGraph(data) == [s \in 1..Len(data) |-> unif(data[1].shape[1])]

NodeWeights(data) == [s \in 1..Len(data) |-> unif(data[s].shape[1])]

\* one coefficient short
MixtureWeightsShort == [k \in 1..(n_samples - 1) |-> <<1, n_samples>>]

MixtureWeights == [k \in 1..n_samples |-> <<1, n_samples>>]

init_C == np_array(init_rows)

\* lines 123-131
Weights ==
  /\ pc = "weights"
  /\ ps' = NodeWeights(dataset)
  /\ lambdas' = MixtureWeights
  /\ pc' = "print_init"
  /\ UNCHANGED <<entropy, rngVars, iter, genVars, C, vizVars, log, fig2, events,
                 binary>>

\* line 133
PrintInit ==
  /\ pc = "print_init"
  /\ events' = Append(events, [ev |-> "print", arg |-> "init_C"])
  /\ pc' = "solve"
  /\ UNCHANGED <<entropy, rngVars, iter, genVars, C, vizVars, ps, lambdas, log,
                 fig2, binary>>

SolverArgs ==
  [N |-> N, Cs |-> Len(dataset), ps |-> Len(ps), lambdas |-> Len(lambdas),
   loss_fun |-> "square_loss", stop_criterion |-> "loss", warmstartT |-> TRUE,
   log |-> TRUE, init_C |-> init_C.shape]

\* the solver's contract: a structure matrix of shape N x N and a log holding
\* the loss of every iteration, a non-empty non-increasing sequence
semirelaxed_gromov_barycenters(args, loss) ==
  [C |-> [shape |-> <<args.N, args.N>>, rows |-> [a \in range(args.N) |-> range(args.N)]],
   log |-> [loss |-> loss]]

\* lines 135-137
Solve ==
  /\ pc = "solve"
  /\ \E loss \in LossSequences :
       LET r == semirelaxed_gromov_barycenters(SolverArgs, loss)
       IN  /\ C' = r.C
           /\ log' = r.log
  /\ events' = Append(events, [ev |-> "solve", arg |-> SolverArgs])
  /\ pc' = "fig2"
  /\ UNCHANGED <<entropy, rngVars, iter, genVars, vizVars, ps, lambdas, fig2,
                 binary>>

\* lines 140-147
Show2 ==
  /\ pc = "fig2"
  /\ fig2' = << [op |-> "title", label |-> "loss evolution by iteration"],
                [op |-> "plot", data |-> log.loss],
                [op |-> "xlabel", label |-> "BCD iterations"],
                [op |-> "ylabel", label |-> "loss"] >>
  /\ events' = Append(events, [ev |-> "show", arg |-> 2])
  /\ pc' = "print_C"
  /\ UNCHANGED <<entropy, rngVars, iter, genVars, C, vizVars, ps, lambdas, log,
                 binary>>

\* line 149
PrintC ==
  /\ pc = "print_C"
  /\ events' = Append(events, [ev |-> "print", arg |-> "C"])
  /\ pc' = "done"
  /\ UNCHANGED <<entropy, rngVars, iter, genVars, C, vizVars, ps, lambdas, log,
                 fig2, binary>>

Next ==
  \/ Seed
  \/ GenStep
  \/ OpenFigure1
  \/ VizStep
  \/ Show1
  \/ Reseed
  \/ Weights
  \/ PrintInit
  \/ Solve
  \/ Show2
  \/ PrintC

Spec == Init /\ [][Next]_vars

\* every statement of the script returns: the run is never stopped midway
FairSpec == Spec /\ WF_vars(Next)

\* ------------------------------------------- the loop body on every input
InitGen ==
  /\ pc = "body"
  /\ entropy \in 1..NumStreams
  /\ Rng0
  /\ n_cluster \in {clusters[k] : k \in 1..Len(clusters)}
  /\ i \in range(GenSeeds)
  /\ n_nodes \in {int(v) : v \in (low * 100)..(high * 100 - 1)}
  /\ GenOut0
  /\ C = EmptyMatrix
  /\ x = <<>>
  /\ binary = TRUE
  /\ Viz0
  /\ Bcd0

ApplyBody ==
  /\ pc = "body"
  /\ LoopBody(n_cluster, i, n_nodes)
  /\ pc' = "body_done"
  /\ UNCHANGED <<entropy, rngVars, iter, vizVars, bcdVars, events, binary>>

NextGen == ApplyBody

SpecGen == InitGen /\ [][NextGen]_vars

\* ------------------------------------------- plot_graph on every input
MatrixRows(n) == [range(n) -> SUBSET range(n)]

Matrix(n, r) == [shape |-> <<n, n>>, rows |-> r]

InitPlot ==
  /\ pc = "plot"
  /\ entropy = 1
  /\ Rng0
  /\ n_cluster = Unbound
  /\ i = Unbound
  /\ n_nodes = Unbound
  /\ GenOut0
  /\ \E n \in 0..MaxN : \E r \in MatrixRows(n) : C = Matrix(n, r)
  /\ x = MDS(C)
  /\ binary \in BOOLEAN
  /\ Viz0
  /\ Bcd0

ApplyPlot ==
  /\ pc = "plot"
  /\ fig1' = plot_graph(x, C, binary)
  /\ pc' = "plot_done"
  /\ UNCHANGED <<entropy, rngVars, iter, genVars, C, idx_c, c, sel, x, bcdVars,
                 events, binary>>

NextPlot == ApplyPlot

SpecPlot == InitPlot /\ [][NextPlot]_vars
\* ================================================================ claims
Side(M) == M.shape[1]

Symmetric(M) == \A a \in DOMAIN M.rows : \A b \in M.rows[a] : Entry(M, b, a) = Entry(M, a, b)

ZeroDiagonal(M) == \A a \in DOMAIN M.rows : Entry(M, a, a) = 0

WithinShape(M) ==
  /\ DOMAIN M.rows = range(M.shape[1])
  /\ \A a \in DOMAIN M.rows : M.rows[a] \subseteq range(M.shape[2])

GenerationOver == pc \notin {"seed", "gen", "body"}

WeightsBuilt == pc \in {"print_init", "solve", "fig2", "print_C", "done"}

\* C1: the block sizes handed to the stochastic block model partition the
\* drawn node count as evenly as possible: they sum to n_nodes and any two of
\* them differ by at most one.
C1_SizesPartitionNodes ==
  pc = "body_done" =>
    /\ np_sum(sizes) = n_nodes
    /\ \A a, b \in DOMAIN sizes : sizes[a] - sizes[b] <= 1

\* C2: every generated adjacency matrix is square, symmetric, has a zero
\* diagonal, and its side, n_cluster times the half-even rounding of
\* n_nodes / n_cluster, lies in the node-count range [low, high).
C2_AdjacencyWellFormed ==
  \A s \in 1..Len(dataset) :
    LET M == dataset[s]
    IN  /\ M.shape[1] = M.shape[2]
        /\ WithinShape(M)
        /\ Symmetric(M)
        /\ ZeroDiagonal(M)
        /\ low <= Side(M) /\ Side(M) < high
        /\ pc = "body_done" =>
             \E q \in 0..n_nodes :
               /\ Side(M) = n_cluster * q
               /\ 2 * n_cluster * q - n_cluster <= 2 * n_nodes
               /\ 2 * n_nodes <= 2 * n_cluster * q + n_cluster
               /\ (2 * n_nodes = 2 * n_cluster * q - n_cluster
                     \/ 2 * n_nodes = 2 * n_cluster * q + n_cluster) => q % 2 = 0

C2_Witness ==
  /\ pc = "body_done"
  /\ n_cluster = 2
  /\ n_nodes = 49
  /\ Len(dataset) = 1
  /\ dataset[1].shape = <<48, 48>>
  /\ \E a \in range(48) : dataset[1].rows[a] # {}

\* C3 (as claimed): over a full run the random generator is seeded exactly
\* once, before any draw, and no later step seeds it again.
C3_SeededExactlyOnce ==
  /\ ndraws > 0 => Len(seeds) >= 1
  /\ Len(seeds) <= 1
  /\ pc = "done" => Len(seeds) = 1

\* C3 (amended): the generator is seeded with 42 before any draw, and seeded
\* once more, with 0, after the whole dataset is drawn and figure 1 shown and
\* before the solver is called; a full run seeds it exactly twice.
C3_SeededThenReseededBeforeSolver ==
  /\ ndraws > 0 => Len(seeds) >= 1
  /\ Len(seeds) >= 1 => seeds[1] = [seed |-> SEED_DATA, draws |-> 0]
  /\ Len(seeds) <= 2
  /\ Len(seeds) = 2 =>
       /\ seeds[2] = [seed |-> SEED_BCD, draws |-> n_samples]
       /\ ndraws = n_samples
       /\ Len(events) >= 1 /\ events[1].ev = "show"
  /\ (\E k \in 1..Len(events) : events[k].ev = "solve") => Len(seeds) = 2
  /\ pc = "done" => Len(seeds) = 2

C3_Witness ==
  /\ pc = "done"
  /\ seeds = << [seed |-> SEED_DATA, draws |-> 0],
                [seed |-> SEED_BCD, draws |-> n_samples] >>

\* C4: the barycenter the script learns has 6 nodes: the size N passed to
\* the solver is 6 and the initial guess init_C passed with it is 6 x 6.
C4_BarycenterHasSixNodes ==
  \A k \in 1..Len(events) :
    events[k].ev = "solve" =>
      /\ events[k].arg.N = 6
      /\ events[k].arg.init_C = <<6, 6>>

C6_LambdasSumToOne ==
  /\ WeightsBuilt =>
       /\ Len(lambdas) = Len(dataset)
       /\ \A k \in 1..Len(lambdas) : lambdas[k] = <<1, n_samples>>
       /\ FracSum(lambdas) = <<1, 1>>
  /\ \A k \in 1..Len(events) :
       events[k].ev = "solve" => events[k].arg.lambdas = events[k].arg.Cs

C6_Witness ==
  /\ pc = "fig2"
  /\ Len(lambdas) = n_samples
  /\ events[3].ev = "solve"
  /\ events[3].arg.lambdas = n_samples

\* C7: there is one node-weight vector per graph, in the order of the
\* dataset; ps[s] is as long as dataset[s] has nodes, its entries are all
\* equal and sum to one.
C7_NodeWeightsUniform ==
  /\ WeightsBuilt =>
       /\ Len(ps) = Len(dataset)
       /\ \A s \in 1..Len(ps) :
            /\ Len(ps[s]) = Side(dataset[s])
            /\ \A k \in 1..Len(ps[s]) : ps[s][k] = ps[s][1]
            /\ FracSum(ps[s]) = <<1, 1>>
  /\ \A k \in 1..Len(events) :
       events[k].ev = "solve" => events[k].arg.ps = events[k].arg.Cs

C7_Witness ==
  /\ pc = "solve"
  /\ Len(ps) = n_samples
  /\ \E s, t \in 1..Len(ps) : Len(ps[s]) # Len(ps[t])

ExpectedEvents == <<"show", "print", "solve", "show", "print">>

EventOrder ==
  /\ pc # "error"
  /\ Len(events) <= Len(ExpectedEvents)
  /\ \A k \in 1..Len(events) : events[k].ev = ExpectedEvents[k]
  /\ Len(events) >= 1 => events[1].arg = 1 /\ Len(dataset) = n_samples
  /\ Len(events) >= 2 => events[2].arg = "init_C"
  /\ Len(events) >= 3 =>
       /\ events[3].arg.Cs = n_samples
       /\ log.loss # <<>>
  /\ Len(events) >= 4 => events[4].arg = 2
  /\ Len(events) >= 5 => events[5].arg = "C"
  /\ fig2 # <<>> =>
       /\ Len(events) >= 3
       /\ \E k \in 1..Len(fig2) : fig2[k].op = "plot" /\ fig2[k].data = log.loss
  /\ pc = "done" => Len(events) = Len(ExpectedEvents)

\* C8: every run terminates, and its events come in this order: the whole
\* dataset is generated, figure 1 shown, init_C printed, the solver invoked
\* exactly once with the 60 graphs, figure 2 shown with the returned loss,
\* C printed last.
C8_RunOrder == []EventOrder /\ <>(pc = "done")

C8_Witness ==
  /\ pc = "done"
  /\ Len(events) = 5
  /\ events[3].ev = "solve"
  /\ events[3].arg.Cs = n_samples
  /\ Len(log.loss) = MaxLossLen

SubplotPositions == SelectSeq(fig1, LAMBDA o : o.op = "subplot")

\* C9: in the sample-visualization loop the graph taken for c is within the
\* dataset and labelled c, and the subplot positions used, c and nlabels + c,
\* are pairwise distinct and lie in 1 .. 2 * nlabels.
C9_SamplePerLabel ==
  /\ pc # "error"
  /\ idx_c # Unbound =>
       /\ 0 <= sel /\ sel < Len(dataset)
       /\ At(labels, sel) = c
       /\ pc \in {"viz", "show1", "reseed", "weights", "print_init", "solve"} => C = At(dataset, sel)
       /\ c = At(clusters, idx_c)
  /\ LET sp == SubplotPositions
     IN  /\ \A k \in 1..Len(sp) : 1 <= sp[k].pos /\ sp[k].pos <= 2 * nlabels
         /\ \A k, m \in 1..Len(sp) : k # m => sp[k].pos # sp[m].pos
         /\ idx_c # Unbound => Len(sp) = 2 * (idx_c + 1)

C9_Witness ==
  /\ pc = "show1"
  /\ c = 3
  /\ sel = 2 * Nc
  /\ Len(SubplotPositions) = 6

LineCount(a, b) ==
  Cardinality({k \in 1..Len(fig1) :
                 fig1[k].op = "plot" /\ fig1[k].a = x[a] /\ fig1[k].b = x[b]})

\* C10: plot_graph draws, with binary=True, exactly one line for every pair
\* i < j with C[i, j] > 0, joining x[i] and x[j], and no other line; with
\* binary=False exactly one line for every pair i < j; in both modes the
\* scatter of the nodes is issued once, after all the lines.
C10_PlotGraphLines ==
  pc = "plot_done" =>
    /\ Len(fig1) >= 1
    /\ fig1[Len(fig1)].op = "scatter"
    /\ fig1[Len(fig1)].pts = x
    /\ \A k \in 1..(Len(fig1) - 1) : fig1[k].op = "plot"
    /\ \A a, b \in range(Side(C)) :
         LineCount(a, b) =
           IF a < b /\ (~binary \/ Entry(C, a, b) > 0) THEN 1 ELSE 0
    /\ \A k \in 1..(Len(fig1) - 1) :
         \E a, b \in range(Side(C)) : fig1[k].a = x[a] /\ fig1[k].b = x[b]

C10_Witness ==
  /\ pc = "plot_done"
  /\ binary
  /\ Side(C) = 3
  /\ C.rows = [a \in range(3) |-> IF a = 0 THEN {1} ELSE IF a = 1 THEN {1, 2} ELSE {0}]
  /\ Len(fig1) = 3
====
